---- MODULE Spec2Model ----
(***************************************************************************)
(* Model of the shared multi-commodity market engine (the second IIFE of   *)
(* the layout/market script).                                              *)
(*                                                                         *)
(* Numbers.  Every JavaScript number is modelled as an integer count of    *)
(* thousandths of a currency unit ("mills"): 0.25 is 250, one cent is 10.  *)
(* Infinity is the non-finite number JSON.parse yields for an overflowing  *)
(* literal (1e999); NonNumeric stands for any value whose typeof is not    *)
(* 'number' (a string such as "abc", null, a missing field).  Math.random  *)
(* is a draw r in 0..RandRes-1 standing for the real r/RandRes in [0,1).   *)
(***************************************************************************)
EXTENDS Integers, Sequences, FiniteSets, TLC

VARIABLES market, storage, storageMode, hook, scripts, timers, ticks, lastOp, peer

vars == <<market, storage, storageMode, hook, scripts, timers, ticks, lastOp, peer>>

----------------------------------------------------------------------------
(* Bounds of the model *)

MaxTicks == 2
MaxScripts == 2
RandRes == 1000

(* Program constants *)

MARKET_HISTORY_LENGTH == 60
Infinity == 1000000000
NegInfinity == 0 - Infinity
NonNumeric == Infinity + 1
Cent == 10

Commodities == <<"corn", "flour", "oil", "biofuel", "ingot">>
CommoditySet == {Commodities[i] : i \in 1..Len(Commodities)}
Derived == CommoditySet \ {"corn"}
PayloadKeys == CommoditySet \cup {"gold"}

----------------------------------------------------------------------------
(* Value helpers *)

IsNumber(v) == v # NonNumeric

isFinite(v) == v > NegInfinity /\ v < Infinity

IsFiniteNumber(v) == IsNumber(v) /\ isFinite(v)

clamp(value, min, max) ==
  IF value < min THEN min
  ELSE IF value > max THEN max
  ELSE value

randomInRange(min, max, r) == min + ((r * (max - min)) \div RandRes)

(* Variant: the rounding step left out *)
RoundToCents_Omitted(x) == x

(* Math.round(x * 100) / 100 : nearest cent, halves upwards *)
RoundToCents(x) == ((x + (Cent \div 2)) \div Cent) * Cent

(* Variant: slice(0, n) written for slice(-n) *)
SliceLast_First(s, n) ==
  IF Len(s) <= n THEN s ELSE SubSeq(s, 1, n)

(* Array.prototype.slice(-n) *)
SliceLast(s, n) ==
  IF Len(s) <= n THEN s ELSE SubSeq(s, Len(s) - n + 1, Len(s))

(* .filter(function (n) { return typeof n === 'number' && isFinite(n); }) *)
FilterFinite(s) == SelectSeq(s, IsFiniteNumber)

(* Variant: the history is appended to without the length check *)
PushBounded_Unbounded(hist, next) == Append(hist, next)

(* hist.push(next); if (hist.length > MARKET_HISTORY_LENGTH) hist = hist.slice(-...) *)
PushBounded(hist, next) ==
  LET pushed == Append(hist, next)
  IN IF Len(pushed) > MARKET_HISTORY_LENGTH
       THEN SliceLast(pushed, MARKET_HISTORY_LENGTH)
       ELSE pushed

createDefaultMarket ==
  [k \in CommoditySet |->
     IF k = "corn" THEN [price |-> 250, history |-> <<>>]
                   ELSE [price |-> 0, history |-> <<>>]]

----------------------------------------------------------------------------
(* Stored values.  The value under the storage key is                      *)
(*   kind "absent"    : getItem returns null (or the empty string)          *)
(*   kind "garbage"   : a string JSON.parse rejects                         *)
(*   kind "primitive" : JSON text of null, a number, a string or a boolean  *)
(*   kind "array"     : JSON text of an array                               *)
(*   kind "object"    : JSON text of an object; obj[k] describes key k      *)

NoEntry == [present |-> FALSE, price |-> NonNumeric, isArr |-> FALSE, history |-> <<>>]

Entry(p, h) == [present |-> TRUE, price |-> p, isArr |-> TRUE, history |-> h]

EmptyObj == [k \in PayloadKeys |-> NoEntry]

RawOf(kind) == [kind |-> kind, obj |-> EmptyObj]

RawObject(o) == [kind |-> "object", obj |-> o]

(* JSON.stringify writes a non-finite number as null *)
JSONstringifyNumber(v) == IF IsFiniteNumber(v) THEN v ELSE NonNumeric

JSONstringifyEntry(e) ==
  [present |-> TRUE,
   price |-> JSONstringifyNumber(e.price),
   isArr |-> TRUE,
   history |-> [i \in 1..Len(e.history) |-> JSONstringifyNumber(e.history[i])]]

----------------------------------------------------------------------------
(* Persistence adapter *)

(* Variant: a commodity the payload lacks is reset to an empty record *)
loadMarketState_ResetMissing(m, mode, raw) ==
  IF mode = "missing" THEN [ok |-> FALSE, market |-> m]
  ELSE IF mode = "readThrows" THEN [ok |-> FALSE, market |-> m]
  ELSE IF raw.kind = "absent" THEN [ok |-> FALSE, market |-> m]
  ELSE IF raw.kind = "garbage" THEN [ok |-> FALSE, market |-> m]
  ELSE IF raw.kind = "primitive" THEN [ok |-> FALSE, market |-> m]
  ELSE IF raw.kind = "array" THEN [ok |-> TRUE, market |-> m]
  ELSE [ok |-> TRUE,
        market |->
          [k \in CommoditySet |->
             LET src == raw.obj[k]
             IN IF ~src.present \/ ~IsNumber(src.price)
                  THEN [price |-> 0, history |-> <<>>]
                  ELSE [price |-> src.price,
                        history |->
                          IF src.isArr
                            THEN FilterFinite(SliceLast(src.history, MARKET_HISTORY_LENGTH))
                            ELSE <<>>]]]

loadMarketState(m, mode, raw) ==
  IF mode = "missing" THEN [ok |-> FALSE, market |-> m]
  ELSE IF mode = "readThrows" THEN [ok |-> FALSE, market |-> m]
  ELSE IF raw.kind = "absent" THEN [ok |-> FALSE, market |-> m]
  ELSE IF raw.kind = "garbage" THEN [ok |-> FALSE, market |-> m]
  ELSE IF raw.kind = "primitive" THEN [ok |-> FALSE, market |-> m]
  ELSE IF raw.kind = "array" THEN [ok |-> TRUE, market |-> m]
  ELSE [ok |-> TRUE,
        market |->
          [k \in CommoditySet |->
             LET src == raw.obj[k]
             IN IF ~src.present \/ ~IsNumber(src.price)
                  THEN m[k]
                  ELSE [price |-> src.price,
                        history |->
                          IF src.isArr
                            THEN FilterFinite(SliceLast(src.history, MARKET_HISTORY_LENGTH))
                            ELSE <<>>]]]

(* Variant: the price written as it is, without the finite-number test *)
CompactEntry_NoDefault(src) ==
  [price |-> src.price,
   history |-> FilterFinite(SliceLast(src.history, MARKET_HISTORY_LENGTH))]

CompactEntry(src) ==
  [price |-> IF IsNumber(src.price) /\ isFinite(src.price) THEN src.price ELSE 0,
   history |-> FilterFinite(SliceLast(src.history, MARKET_HISTORY_LENGTH))]

CompactMarket(m) ==
  RawObject([k \in PayloadKeys |->
               IF k \in CommoditySet THEN JSONstringifyEntry(CompactEntry(m[k]))
                                     ELSE NoEntry])

(* Variant: the try/catch around the write left out *)
saveMarketState_NoCatch(m, mode, raw) ==
  IF mode = "missing" THEN [storage |-> raw, raised |-> FALSE]
  ELSE IF mode = "writeThrows" THEN [storage |-> raw, raised |-> TRUE]
  ELSE [storage |-> CompactMarket(m), raised |-> FALSE]

(* Variant: a payload already stored is kept, only a missing one written *)
saveMarketState_KeepExisting(m, mode, raw) ==
  IF mode = "missing" THEN [storage |-> raw, raised |-> FALSE]
  ELSE IF mode = "writeThrows" THEN [storage |-> raw, raised |-> FALSE]
  ELSE IF raw.kind = "object" THEN [storage |-> raw, raised |-> FALSE]
  ELSE [storage |-> CompactMarket(m), raised |-> FALSE]

saveMarketState(m, mode, raw) ==
  IF mode = "missing" THEN [storage |-> raw, raised |-> FALSE]
  ELSE IF mode = "writeThrows" THEN [storage |-> raw, raised |-> FALSE]
  ELSE [storage |-> CompactMarket(m), raised |-> FALSE]

----------------------------------------------------------------------------
(* Price algorithms *)

(* Variant: the night band used at every hour *)
HourDelta_NightAlways(hour, r) == randomInRange(-40, 40, r)

HourDelta(hour, r) ==
  IF hour >= 6 /\ hour <= 11 THEN randomInRange(-10, 30, r)
  ELSE IF hour >= 12 /\ hour <= 17 THEN randomInRange(-10, 10, r)
  ELSE randomInRange(-40, 40, r)

(* Variant: the price assigned, the history left as it was *)
updateCornPriceOnce_NoHistory(m, hour, rs) ==
  LET current == IF IsNumber(m["corn"].price) /\ isFinite(m["corn"].price)
                   THEN m["corn"].price ELSE 250
      delta == HourDelta(hour, rs[1])
      next == RoundToCents(clamp(current + delta, 50, 900))
  IN [m EXCEPT !["corn"].price = next]

updateCornPriceOnce(m, hour, rs) ==
  LET current == IF IsNumber(m["corn"].price) /\ isFinite(m["corn"].price)
                   THEN m["corn"].price ELSE 250
      delta == HourDelta(hour, rs[1])
      next == RoundToCents(clamp(current + delta, 50, 900))
  IN [m EXCEPT !["corn"] = [price |-> next,
                            history |-> PushBounded(m["corn"].history, next)]]

updateOne(entry, p, cornUnits, minMult, maxMult, minPrice, maxPrice, r) ==
  LET raw == (p * cornUnits * randomInRange(minMult, maxMult, r)) \div 1000
      clamped == RoundToCents(clamp(raw, minPrice, maxPrice))
  IN [price |-> clamped, history |-> PushBounded(entry.history, clamped)]

(* rs[2..5]: the four Math.random results, in call order *)
updateDerivedFromCorn(m, rs) ==
  LET p == IF IsNumber(m["corn"].price) /\ isFinite(m["corn"].price)
             THEN m["corn"].price ELSE 250
  IN [k \in CommoditySet |->
        IF k = "flour" THEN updateOne(m[k], p, 4, 1600, 2400, 500, 8000, rs[2])
        ELSE IF k = "oil" THEN updateOne(m[k], p, 10, 2000, 3000, 2000, 30000, rs[3])
        ELSE IF k = "biofuel" THEN updateOne(m[k], p, 25, 2500, 3500, 5000, 80000, rs[4])
        ELSE IF k = "ingot" THEN updateOne(m[k], p, 50, 3000, 4500, 10000, 200000, rs[5])
        ELSE m[k]]

(* Variant: the closing updateDerivedFromCorn() call left out *)
seedInitialMarket_NoDerive(m, rs) ==
  LET base == RoundToCents(randomInRange(180, 320, rs[1]))
  IN [m EXCEPT !["corn"] = [price |-> base, history |-> <<base>>]]

seedInitialMarket(m, rs) ==
  LET base == RoundToCents(randomInRange(180, 320, rs[1]))
  IN updateDerivedFromCorn(
       [m EXCEPT !["corn"] = [price |-> base, history |-> <<base>>]], rs)

(* Variant: the derived commodities computed before the corn step *)
TickMarket_DeriveFirst(m, hour, rs) ==
  updateCornPriceOnce(updateDerivedFromCorn(m, rs), hour, rs)

(* updateCornPriceOnce(); updateDerivedFromCorn(); (lines 238-239) *)
TickMarket(m, hour, rs) ==
  updateDerivedFromCorn(updateCornPriceOnce(m, hour, rs), rs)

(* Variant: the Array.isArray test inverted, every history reset *)
ensureHistoryArrays_Reset(m) ==
  [k \in CommoditySet |-> [m[k] EXCEPT !.history = <<>>]]

ensureHistoryArrays(m) ==
  [k \in CommoditySet |->
     IF Len(m[k].history) > MARKET_HISTORY_LENGTH
       THEN [m[k] EXCEPT !.history = SliceLast(m[k].history, MARKET_HISTORY_LENGTH)]
       ELSE m[k]]

----------------------------------------------------------------------------
(* Notification hook: typeof check, then try { hook() } catch (e) {} *)

(* Variant: the try/catch around the hook call left out *)
notifyMarketUpdated_NoCatch(h) ==
  [calls |-> IF h = "undefined" THEN 0 ELSE 1, raised |-> h = "throws"]

notifyMarketUpdated(h) ==
  [calls |-> IF h = "undefined" THEN 0 ELSE 1, raised |-> FALSE]

(* Variant: the marketLoopId test inverted *)
startMarketLoop_Inverted(loopId, active) ==
  IF loopId # 0
    THEN [loopId |-> Cardinality(active) + 1,
          timers |-> active \cup {Cardinality(active) + 1}]
    ELSE [loopId |-> loopId, timers |-> active]

(* if (!marketLoopId) marketLoopId = window.setInterval(updateMarketOnce, 60000) *)
startMarketLoop(loopId, active) ==
  IF loopId = 0
    THEN [loopId |-> Cardinality(active) + 1,
          timers |-> active \cup {Cardinality(active) + 1}]
    ELSE [loopId |-> loopId, timers |-> active]

----------------------------------------------------------------------------
(* Inputs *)

(* Local hours at which a tick may run: one per band, each on a band edge *)
Hours == {6, 17, 18}

(* The Math.random results one seed or one tick consumes, in call order:   *)
(* the corn draw, then the flour, oil, biofuel and ingot draws             *)
RandomStreams ==
  {<<0, 0, 0, 0, 0>>,
   <<RandRes - 1, RandRes - 1, RandRes - 1, RandRes - 1, RandRes - 1>>,
   <<RandRes \div 2, 0, RandRes - 1, RandRes \div 2, RandRes - 1>>}

HookKinds == {"undefined", "ok", "throws"}

Ramp(n, base) == [i \in 1..n |-> base + Cent * (i % 7)]

FullObj(corn, hist) ==
  [k \in PayloadKeys |->
     IF k = "corn" THEN Entry(corn, hist)
     ELSE IF k = "flour" THEN Entry(2000, hist)
     ELSE IF k = "oil" THEN Entry(6000, hist)
     ELSE IF k = "biofuel" THEN Entry(18000, hist)
     ELSE IF k = "ingot" THEN Entry(45000, hist)
     ELSE NoEntry]

ValidStored == RawObject(FullObj(250, <<240, 250>>))

StoredValues ==
  {ValidStored, RawOf("absent"), RawOf("garbage"), RawOf("primitive"), RawOf("array"),
   RawObject(EmptyObj),
   RawObject([EmptyObj EXCEPT !["corn"] = [NoEntry EXCEPT !.present = TRUE]]),
   RawObject([EmptyObj EXCEPT !["corn"] = Entry(5000, <<5000>>)]),
   RawObject([EmptyObj EXCEPT !["corn"] = Entry(255, <<250, 255>>),
                              !["gold"] = Entry(1000, <<1000>>)]),
   RawObject([EmptyObj EXCEPT !["corn"] = Entry(Infinity, <<250, NonNumeric, Infinity, 260>>),
                              !["flour"] = Entry(NonNumeric, <<2000>>)]),
   RawObject([FullObj(250, <<240, 250>>) EXCEPT !["oil"] = [Entry(6000, <<>>) EXCEPT !.isArr = FALSE]]),
   RawObject(FullObj(50, Ramp(MARKET_HISTORY_LENGTH - 1, 50))),
   RawObject(FullObj(900, Ramp(MARKET_HISTORY_LENGTH, 200))),
   RawObject(FullObj(300, Ramp(MARKET_HISTORY_LENGTH + 2, 200))),
   RawObject(FullObj(300, Ramp(MARKET_HISTORY_LENGTH, 200) \o <<NonNumeric, Infinity>>))}

(* Start-up environments: the storage facility's behaviour and the value  *)
(* it holds under the key                                                  *)
Environments ==
  ({"ok"} \X StoredValues)
    \cup {<<"missing", RawOf("absent")>>, <<"readThrows", ValidStored>>,
          <<"writeThrows", RawOf("absent")>>, <<"writeThrows", ValidStored>>}

----------------------------------------------------------------------------
(* State machine *)

FreshScript == [marketInitialized |-> FALSE, marketLoopId |-> 0]

(* What a hook invoked with in-memory market m and stored value raw can    *)
(* read: each price, each history length, each stored price               *)
HookView(m, raw) ==
  [price |-> [k \in CommoditySet |-> m[k].price],
   len |-> [k \in CommoditySet |-> Len(m[k].history)],
   stored |-> [k \in CommoditySet |->
                 IF raw.kind = "object" THEN raw.obj[k].price ELSE NonNumeric]]

NoView == HookView(createDefaultMarket, RawOf("absent"))

(* Variant: the hook of a tick invoked before saveMarketState *)
TickHookView_BeforeSave(mPost, rawPre, rawPost) == HookView(mPost, rawPre)

(* The hook call is the last statement of updateMarketOnce (lines 238-247) *)
TickHookView(mPost, rawPre, rawPost) == HookView(mPost, rawPost)

NoOp == [op |-> "none", hookCalls |-> 0, raised |-> FALSE,
         loaded |-> FALSE, seeded |-> FALSE, view |-> NoView]

(* A second process (tab) on the same storage: its own window.market, its  *)
(* own hook, closure flags and timers.  The variables market, hook,        *)
(* scripts and timers are those of the process the scheduler is running;   *)
(* peer holds those of the other process.                                  *)
FreshPeer ==
  [market |-> createDefaultMarket, hook |-> "undefined",
   scripts |-> <<FreshScript>>, timers |-> {}]

(* The closure window.ensureMarketInitialized refers to: the latest evaluation *)
Cur == Len(scripts)

Init ==
  /\ market = createDefaultMarket
  /\ \E env \in Environments : storageMode = env[1] /\ storage = env[2]
  /\ hook \in HookKinds
  /\ scripts = <<FreshScript>>
  /\ timers = {}
  /\ ticks = 0
  /\ lastOp = NoOp
  /\ peer = FreshPeer

(* Variant: the marketInitialized test at the top of the function never true *)
IsRunning_Never(script) == FALSE

(* if (marketInitialized) { ... return; } *)
IsRunning(script) == script.marketInitialized

(* ensureMarketInitialized, marketInitialized already true *)
EnsureRunning ==
  /\ IsRunning(scripts[Cur])
  /\ LET n == notifyMarketUpdated(hook)
     IN lastOp' = [op |-> "reinit", hookCalls |-> n.calls, raised |-> n.raised,
                   loaded |-> FALSE, seeded |-> FALSE,
                   view |-> IF n.calls = 1 THEN HookView(market, storage) ELSE NoView]
  /\ UNCHANGED <<market, storage, storageMode, hook, scripts, timers, ticks, peer>>

(* Lines 264-286: load or seed, mark running, notify, start the loop *)
InitializeMarket ==
  /\ \E rs \in RandomStreams :
       LET ld == loadMarketState(market, storageMode, storage)
           seed == ~ld.ok \/ ~IsNumber(ld.market["corn"].price)
           m1 == IF seed THEN seedInitialMarket(ld.market, rs)
                         ELSE ensureHistoryArrays(ld.market)
           sv == IF seed THEN saveMarketState(m1, storageMode, storage)
                         ELSE [storage |-> storage, raised |-> FALSE]
           n == IF sv.raised THEN [calls |-> 0, raised |-> TRUE]
                             ELSE notifyMarketUpdated(hook)
           lp == IF n.raised
                   THEN [loopId |-> scripts[Cur].marketLoopId, timers |-> timers]
                   ELSE startMarketLoop(scripts[Cur].marketLoopId, timers)
       IN /\ market' = m1
          /\ storage' = sv.storage
          /\ scripts' = [scripts EXCEPT ![Cur] =
                           [marketInitialized |-> ~sv.raised, marketLoopId |-> lp.loopId]]
          /\ timers' = lp.timers
          /\ lastOp' = [op |-> "init", hookCalls |-> n.calls, raised |-> n.raised,
                        loaded |-> ld.ok, seeded |-> seed,
                        view |-> IF n.calls = 1 THEN HookView(m1, sv.storage) ELSE NoView]
  /\ UNCHANGED <<storageMode, hook, ticks, peer>>

(* ensureMarketInitialized, first call of this script instance *)
EnsureFirst ==
  /\ ~IsRunning(scripts[Cur])
  /\ InitializeMarket

ensureMarketInitialized == EnsureRunning \/ EnsureFirst

(* One firing of a recurring timer: updateMarketOnce *)
updateMarketOnce ==
  /\ timers # {}
  /\ ticks < MaxTicks
  /\ \E hour \in Hours, rs \in RandomStreams :
       LET m1 == TickMarket(market, hour, rs)
           sv == saveMarketState(m1, storageMode, storage)
           n == IF sv.raised THEN [calls |-> 0, raised |-> TRUE]
                             ELSE notifyMarketUpdated(hook)
       IN /\ market' = m1
          /\ storage' = sv.storage
          /\ lastOp' = [op |-> "tick", hookCalls |-> n.calls, raised |-> n.raised,
                        loaded |-> FALSE, seeded |-> FALSE,
                        view |-> IF n.calls = 1
                                   THEN TickHookView(m1, storage, sv.storage)
                                   ELSE NoView]
  /\ ticks' = ticks + 1
  /\ UNCHANGED <<storageMode, hook, scripts, timers, peer>>

(* The host page defines, replaces or removes window.onMarketUpdated *)
SetHook ==
  /\ \E h \in HookKinds : h # hook /\ hook' = h
  /\ lastOp' = NoOp
  /\ UNCHANGED <<market, storage, storageMode, scripts, timers, ticks, peer>>

Next == ensureMarketInitialized \/ updateMarketOnce \/ SetHook

Spec == Init /\ [][Next]_vars

(* The script is evaluated again in the same window: a new closure with    *)
(* its own marketLoopId and marketInitialized, the same window.market, and *)
(* window.ensureMarketInitialized now referring to the new closure         *)
EvalScript ==
  /\ Len(scripts) < MaxScripts
  /\ scripts' = Append(scripts, FreshScript)
  /\ lastOp' = [NoOp EXCEPT !.op = "eval"]
  /\ UNCHANGED <<market, storage, storageMode, hook, timers, ticks, peer>>

----------------------------------------------------------------------------
(* The persistence adapter on its own: any in-memory market is saved, and  *)
(* the stored value is loaded into a fresh default mapping                 *)

Prices == {0, 255, 5000, Infinity}

Histories ==
  {<<>>, <<250, 255>>, Ramp(MARKET_HISTORY_LENGTH, 200),
   Ramp(MARKET_HISTORY_LENGTH + 3, 200), <<250, Infinity, 260>>}

AnyMarkets ==
  {[k \in CommoditySet |->
      IF k = "corn" THEN [price |-> c[1], history |-> c[2]]
                    ELSE [price |-> d[1], history |-> d[2]]] :
     c \in Prices \X Histories, d \in Prices \X Histories}

InitPersist ==
  /\ market \in AnyMarkets
  /\ storage = RawOf("absent")
  /\ storageMode \in {"ok", "writeThrows"}
  /\ hook = "undefined"
  /\ scripts = <<FreshScript>>
  /\ timers = {}
  /\ ticks = 0
  /\ lastOp = NoOp
  /\ peer = FreshPeer

SaveStep ==
  /\ LET sv == saveMarketState(market, storageMode, storage)
     IN /\ storage' = sv.storage
        /\ lastOp' = [NoOp EXCEPT !.op = "save", !.raised = sv.raised]
  /\ UNCHANGED <<market, storageMode, hook, scripts, timers, ticks, peer>>

LoadFreshStep ==
  /\ LET ld == loadMarketState(createDefaultMarket, storageMode, storage)
     IN /\ market' = ld.market
        /\ lastOp' = [NoOp EXCEPT !.op = "load", !.loaded = ld.ok]
  /\ UNCHANGED <<storage, storageMode, hook, scripts, timers, ticks, peer>>

NextPersist == SaveStep \/ LoadFreshStep

SpecPersist == InitPersist /\ [][NextPersist]_vars

----------------------------------------------------------------------------
(* loadMarketState on its own: any stored value is loaded into a market    *)
(* that is the default one or one a running engine holds                   *)

LoadTargets ==
  {createDefaultMarket,
   seedInitialMarket(createDefaultMarket, <<0, 0, 0, 0, 0>>),
   TickMarket(seedInitialMarket(createDefaultMarket, <<0, 0, 0, 0, 0>>), 6,
              <<RandRes - 1, RandRes - 1, RandRes - 1, RandRes - 1, RandRes - 1>>),
   [k \in CommoditySet |-> [price |-> 900, history |-> Ramp(MARKET_HISTORY_LENGTH, 300)]]}

InitLoad ==
  /\ market \in LoadTargets
  /\ storage \in StoredValues
  /\ storageMode \in {"ok", "readThrows"}
  /\ hook = "undefined"
  /\ scripts = <<FreshScript>>
  /\ timers = {}
  /\ ticks = 0
  /\ lastOp = NoOp
  /\ peer = FreshPeer

LoadStep ==
  /\ LET ld == loadMarketState(market, storageMode, storage)
     IN /\ market' = ld.market
        /\ lastOp' = [NoOp EXCEPT !.op = "load", !.loaded = ld.ok]
  /\ UNCHANGED <<storage, storageMode, hook, scripts, timers, ticks, peer>>

NextLoad == LoadStep

SpecLoad == InitLoad /\ [][NextLoad]_vars

----------------------------------------------------------------------------
(* updateCornPriceOnce on its own: every local hour, from any value that   *)
(* market.corn.price can hold                                              *)

MaxCornSteps == 2

CornHours == 0 .. 23

CornDraws == {0, RandRes \div 4, RandRes \div 2, RandRes - 1}

CornPrices == {50, 60, 250, 255, 890, 900, 5000, -100, Infinity, NonNumeric}

InitCorn ==
  /\ \E c \in CornPrices :
       market = [createDefaultMarket EXCEPT !["corn"].price = c]
  /\ storage = RawOf("absent")
  /\ storageMode = "ok"
  /\ hook = "undefined"
  /\ scripts = <<FreshScript>>
  /\ timers = {}
  /\ ticks = 0
  /\ lastOp = NoOp
  /\ peer = FreshPeer

CornStepAt(hour, r) ==
  /\ ticks < MaxCornSteps
  /\ market' = updateCornPriceOnce(market, hour, <<r, 0, 0, 0, 0>>)
  /\ ticks' = ticks + 1
  /\ lastOp' = [NoOp EXCEPT !.op = "corn"]
  /\ UNCHANGED <<storage, storageMode, hook, scripts, timers, peer>>

CornStep == \E hour \in CornHours, r \in CornDraws : CornStepAt(hour, r)

NextCorn == CornStep

SpecCorn == InitCorn /\ [][NextCorn]_vars

----------------------------------------------------------------------------
(* Two processes (tabs) sharing the storage key *)

(* The scheduler turns to the other process *)
SwitchTab ==
  /\ market' = peer.market
  /\ hook' = peer.hook
  /\ scripts' = peer.scripts
  /\ timers' = peer.timers
  /\ peer' = [market |-> market, hook |-> hook, scripts |-> scripts, timers |-> timers]
  /\ lastOp' = [NoOp EXCEPT !.op = "switch"]
  /\ UNCHANGED <<storage, storageMode, ticks>>

TabEnvironments ==
  {<<"ok", RawOf("absent")>>, <<"ok", RawOf("garbage")>>, <<"writeThrows", RawOf("absent")>>}

InitTabs ==
  /\ market = createDefaultMarket
  /\ \E env \in TabEnvironments : storageMode = env[1] /\ storage = env[2]
  /\ hook \in {"ok", "throws"}
  /\ scripts = <<FreshScript>>
  /\ timers = {}
  /\ ticks = 0
  /\ lastOp = NoOp
  /\ peer = [FreshPeer EXCEPT !.hook = "ok"]

NextTabs == ensureMarketInitialized \/ updateMarketOnce \/ SwitchTab

SpecTabs == InitTabs /\ [][NextTabs]_vars

----------------------------------------------------------------------------
(* Long runs of the engine: the storage is empty or holds what an earlier  *)
(* process of this engine saved after its seed and a number of ticks       *)

QuietStream == <<RandRes \div 2, 0, RandRes - 1, RandRes \div 2, RandRes - 1>>

SeedQuiet == seedInitialMarket(createDefaultMarket, QuietStream)

TickQuiet == TickMarket(SeedQuiet, 17, QuietStream)

(* The market after the seed and n ticks at hour 17 with the seed's draws: *)
(* such a tick leaves corn where the seed put it, so that each of the n    *)
(* ticks appends the prices of the first one (n < MARKET_HISTORY_LENGTH)   *)
TickedTimes(n) ==
  [k \in CommoditySet |->
     [price |-> IF n = 0 THEN SeedQuiet[k].price ELSE TickQuiet[k].price,
      history |-> <<SeedQuiet[k].price>> \o [i \in 1 .. n |-> TickQuiet[k].price]]]

(* The payload of the process that seeded and then ticked n times *)
SavedAfter(n) == saveMarketState(TickedTimes(n), "ok", RawOf("absent")).storage

SeriesStored ==
  {RawOf("absent"),
   SavedAfter(MARKET_HISTORY_LENGTH - 2),
   SavedAfter(MARKET_HISTORY_LENGTH - 1)}

InitSeries ==
  /\ market = createDefaultMarket
  /\ storage \in SeriesStored
  /\ storageMode = "ok"
  /\ hook = "ok"
  /\ scripts = <<FreshScript>>
  /\ timers = {}
  /\ ticks = 0
  /\ lastOp = NoOp
  /\ peer = [FreshPeer EXCEPT !.hook = "ok"]

NextSeries == ensureMarketInitialized \/ updateMarketOnce \/ SwitchTab

SpecSeries == InitSeries /\ [][NextSeries]_vars

----------------------------------------------------------------------------
NextReload == Next \/ EvalScript

SpecReload == Init /\ [][NextReload]_vars

----------------------------------------------------------------------------
(* Vocabulary of the properties *)

Running == scripts[Cur].marketInitialized

CallStep == lastOp'.op \in {"init", "reinit"}

TickStep == lastOp'.op = "tick"

HookDefined == hook # "undefined"

(* The price bands: corn from the clamp of the random walk, the derived    *)
(* commodities from the parameter table                                    *)
BandMin(k) ==
  IF k = "corn" THEN 50 ELSE IF k = "flour" THEN 500 ELSE IF k = "oil" THEN 2000
  ELSE IF k = "biofuel" THEN 5000 ELSE 10000

BandMax(k) ==
  IF k = "corn" THEN 900 ELSE IF k = "flour" THEN 8000 ELSE IF k = "oil" THEN 30000
  ELSE IF k = "biofuel" THEN 80000 ELSE 200000

InBand(k, v) == v >= BandMin(k) /\ v <= BandMax(k)

WholeCents(v) == v % 10 = 0

(* The last n elements of s, in order *)
Suffix(s, n) ==
  LET len == IF Len(s) < n THEN Len(s) ELSE n
  IN [i \in 1..len |-> s[Len(s) - len + i]]

----------------------------------------------------------------------------
(* C1: a call of ensureMarketInitialized made while the engine is already  *)
(* running changes neither the in-memory market, nor the stored payload,   *)
(* nor the set of active timers, nor the closure's flags, raises nothing,  *)
(* and invokes the notification hook exactly once when one is defined.     *)
C1_RunningCallIsFrame ==
  [][(Running /\ CallStep) =>
       /\ market' = market
       /\ storage' = storage
       /\ timers' = timers
       /\ scripts' = scripts
       /\ lastOp'.hookCalls = (IF HookDefined THEN 1 ELSE 0)
       /\ ~lastOp'.raised]_vars

C1_Witness ==
  /\ lastOp.op = "reinit"
  /\ lastOp.hookCalls = 1
  /\ Len(market["corn"].history) >= 1

(* C2: with the script evaluated once, no recurring timer is active until  *)
(* the first ensureMarketInitialized call has completed and exactly one is *)
(* active from then on, however many calls and ticks follow.               *)
C2_ExactlyOneTimer ==
  Cardinality(timers) = (IF Running THEN 1 ELSE 0)

C2_Witness ==
  /\ lastOp.op = "reinit"
  /\ ticks >= 1
  /\ Cardinality(timers) = 1

(* C3: when the script is evaluated again and the entry point is invoked   *)
(* after each evaluation, an invocation made once a timer exists creates   *)
(* no further timer and leaves the market unchanged, and fires the hook.   *)
C3_ReloadIdempotent ==
  [][(timers # {} /\ CallStep) =>
       /\ timers' = timers
       /\ market' = market
       /\ lastOp'.hookCalls = (IF HookDefined THEN 1 ELSE 0)]_vars

(* C4: once initialization has completed every commodity's price lies in   *)
(* its band, whatever the storage key held at start-up.                    *)
C4_PricesInBand ==
  Running => \A k \in CommoditySet : InBand(k, market[k].price)

(* C5: right after a tick every price lies in its band and is a whole      *)
(* number of cents, whatever the state before the tick and the hour.       *)
C5_TickPricesInBandAndCents ==
  lastOp.op = "tick" =>
    \A k \in CommoditySet : InBand(k, market[k].price) /\ WholeCents(market[k].price)

C5_Witness ==
  /\ lastOp.op = "tick"
  /\ market["corn"].price = 900
  /\ market["flour"].price = 8000
  /\ market["ingot"].price = 200000

(* C6: no history is ever longer than 60 entries, and a tick sets each     *)
(* history to the last 60 elements of the previous history followed by the *)
(* new price.                                                              *)
C6_HistoryBounded ==
  [][/\ \A k \in CommoditySet : Len(market'[k].history) <= 60
     /\ TickStep =>
          \A k \in CommoditySet :
            market'[k].history = Suffix(Append(market[k].history, market'[k].price), 60)]_vars

C6_Witness ==
  /\ lastOp.op = "tick"
  /\ ticks = 2
  /\ \A k \in CommoditySet : Len(market[k].history) = 60

(* C7: a successful save followed by a load into a fresh default mapping   *)
(* gives back, for every commodity of a market whose prices and history    *)
(* entries are all finite, the same price and the last min(60, length)     *)
(* history entries in the same order.                                      *)
FiniteMarket(m) ==
  \A k \in CommoditySet :
    /\ m[k].price > -Infinity /\ m[k].price < Infinity
    /\ \A i \in 1..Len(m[k].history) :
         m[k].history[i] > -Infinity /\ m[k].history[i] < Infinity

C7_SaveLoadRoundTrip ==
  [][(lastOp.op = "save" /\ storageMode = "ok" /\ lastOp'.op = "load" /\ FiniteMarket(market)) =>
       /\ lastOp'.loaded
       /\ \A k \in CommoditySet :
            /\ market'[k].price = market[k].price
            /\ market'[k].history = Suffix(market[k].history, 60)]_vars

C7_Witness ==
  /\ lastOp.op = "load"
  /\ lastOp.loaded
  /\ market["corn"].price = 5000
  /\ Len(market["corn"].history) = 60
  /\ market["corn"].history[1] = 240
  /\ market["flour"].history = <<250, 255>>

(* C8: a first ensureMarketInitialized that finds a stored object whose    *)
(* corn entry has a non-numeric price seeds the market: corn drawn from    *)
(* [0.18, 0.32], a one-element corn history, every derived commodity       *)
(* computed from it, and the result saved.                                 *)
C8_CorruptCornReseeds ==
  [][(~Running /\ CallStep /\ storageMode = "ok" /\ storage.kind = "object"
        /\ storage.obj["corn"].present /\ storage.obj["corn"].price = NonNumeric) =>
       /\ lastOp'.seeded
       /\ market'["corn"].price >= 180 /\ market'["corn"].price <= 320
       /\ market'["corn"].history = <<market'["corn"].price>>
       /\ \A k \in Derived : market'[k].history = <<market'[k].price>>
       /\ storage' # storage]_vars

(* C9: storage failures are contained.  Whenever the storage facility is   *)
(* missing, throws on read, holds nothing under the key, or holds an       *)
(* unparsable or non-object value, loadMarketState returns false and       *)
(* leaves the market as it is; a save whose write is unavailable or fails  *)
(* raises nothing and leaves the stored value as it is; a first            *)
(* ensureMarketInitialized in such a load failure ends seeded, running,    *)
(* with the hook fired and the timer started; and every tick appends the   *)
(* new prices and fires the hook whatever the storage does.                *)
LoadFailure ==
  \/ storageMode \in {"missing", "readThrows"}
  \/ storage.kind \in {"absent", "garbage", "primitive"}

WriteFailure == storageMode \in {"missing", "writeThrows"}

C9_LoadAndSaveContained ==
  /\ LoadFailure =>
       LET ld == loadMarketState(market, storageMode, storage)
       IN ~ld.ok /\ ld.market = market
  /\ WriteFailure =>
       LET sv == saveMarketState(market, storageMode, storage)
       IN ~sv.raised /\ sv.storage = storage

C9_StepsContained ==
  /\ (~Running /\ CallStep /\ LoadFailure) =>
       /\ Running'
       /\ ~lastOp'.raised
       /\ ~lastOp'.loaded /\ lastOp'.seeded
       /\ market'["corn"].price >= 180 /\ market'["corn"].price <= 320
       /\ \A k \in CommoditySet : market'[k].history = <<market'[k].price>>
       /\ lastOp'.hookCalls = (IF HookDefined THEN 1 ELSE 0)
       /\ Cardinality(timers') = 1
       /\ WriteFailure => storage' = storage
  /\ TickStep =>
       /\ ~lastOp'.raised
       /\ \A k \in CommoditySet :
            market'[k].history = Suffix(Append(market[k].history, market'[k].price), 60)
       /\ lastOp'.hookCalls = (IF HookDefined THEN 1 ELSE 0)
       /\ WriteFailure => storage' = storage

C9_StorageFailuresContained ==
  []C9_LoadAndSaveContained /\ [][C9_StepsContained]_vars

C9_Witness ==
  /\ lastOp.op = "tick"
  /\ storageMode = "writeThrows"
  /\ storage.kind = "absent"
  /\ lastOp.hookCalls = 1
  /\ Len(market["corn"].history) = 3

(* C10: a throwing hook changes nothing.  A first ensureMarketInitialized  *)
(* whose hook throws still leaves the engine running with its timer        *)
(* started; a tick whose hook throws keeps its new prices, histories and   *)
(* stored payload and leaves the timer active; neither lets the exception  *)
(* out.                                                                    *)
C10_ThrowingHookContained ==
  [][/\ (~Running /\ CallStep /\ hook = "throws") =>
          /\ Running'
          /\ Cardinality(timers') = 1
          /\ lastOp'.hookCalls = 1
          /\ ~lastOp'.raised
     /\ (Running /\ CallStep /\ hook = "throws") =>
          /\ ~lastOp'.raised
          /\ timers' = timers
     /\ (TickStep /\ hook = "throws") =>
          /\ ~lastOp'.raised
          /\ lastOp'.hookCalls = 1
          /\ timers' = timers /\ timers' # {}
          /\ \A k \in CommoditySet :
               /\ market'[k].history = Suffix(Append(market[k].history, market'[k].price), 60)
               /\ storageMode = "ok" =>
                    /\ storage'.obj[k].price = market'[k].price
                    /\ storage'.obj[k].history = market'[k].history]_vars

C10_Witness ==
  /\ lastOp.op = "tick"
  /\ hook = "throws"
  /\ lastOp.hookCalls = 1
  /\ ticks = 2
  /\ storageMode = "ok"
  /\ storage.obj["corn"].history = market["corn"].history

(* A finite number: a number, and neither Infinity nor -Infinity *)
FiniteValue(v) == v # NonNumeric /\ v > -Infinity /\ v < Infinity

(* C11: once ensureMarketInitialized has run, whatever the storage key     *)
(* held, every commodity's in-memory price is a finite number and every    *)
(* history entry is a finite number, and this stays so after every tick.   *)
C11_MemoryAlwaysFinite ==
  Running =>
    \A k \in CommoditySet :
      /\ FiniteValue(market[k].price)
      /\ \A i \in 1..Len(market[k].history) : FiniteValue(market[k].history[i])

(* A well-formed stored payload: an object with exactly the five           *)
(* commodity keys, each a finite price and an array of at most 60 finite   *)
(* numbers                                                                 *)
WellFormedPayload(raw) ==
  /\ raw.kind = "object"
  /\ \A k \in DOMAIN raw.obj : raw.obj[k].present <=> k \in CommoditySet
  /\ \A k \in CommoditySet :
       /\ FiniteValue(raw.obj[k].price)
       /\ raw.obj[k].isArr
       /\ Len(raw.obj[k].history) <= 60
       /\ \A i \in 1..Len(raw.obj[k].history) : FiniteValue(raw.obj[k].history[i])

(* The payload holds the prices and histories of m, 0 standing in for a    *)
(* price that is not a finite number                                       *)
Mirrors(raw, m) ==
  /\ raw.kind = "object"
  /\ \A k \in CommoditySet :
       /\ raw.obj[k].present
       /\ raw.obj[k].price = (IF FiniteValue(m[k].price) THEN m[k].price ELSE 0)
       /\ raw.obj[k].isArr
       /\ raw.obj[k].history = m[k].history

Writable == storageMode = "ok"

SeedStep == lastOp'.op = "init" /\ lastOp'.seeded

(* C12: every payload the engine writes, on seed and on every tick, is     *)
(* well formed and holds the in-memory prices and histories; and whatever  *)
(* state the engine is in, the payload a save would write is well formed,  *)
(* with 0 in place of a price that is not a finite number.                 *)
C12_SavedFromAnyState ==
  LET sv == saveMarketState(market, "ok", storage).storage
  IN WellFormedPayload(sv) /\ Mirrors(sv, market)

C12_WrittenOnStep ==
  ((SeedStep \/ TickStep) /\ Writable) =>
     WellFormedPayload(storage') /\ Mirrors(storage', market')

C12_WrittenPayloadWellFormed ==
  []C12_SavedFromAnyState /\ [][C12_WrittenOnStep]_vars

C12_Witness ==
  /\ lastOp.op = "tick"
  /\ Writable
  /\ Len(storage.obj["corn"].history) = 60
  /\ storage.obj["ingot"].price = 200000

PeerRunning == peer.scripts[Len(peer.scripts)].marketInitialized

EngineStep == lastOp'.op \in {"init", "reinit", "tick"}

(* C13: a save that succeeds leaves the stored payload holding the         *)
(* process's prices and histories; and when a fresh process, its market    *)
(* still the default one, makes its first ensureMarketInitialized call on  *)
(* a storage that holds what the earlier process had at its last save, it  *)
(* loads without seeding and without writing, and ends with every price    *)
(* and history equal to the earlier process's.                             *)
C13_RestartRecovers ==
  [][/\ ((SeedStep \/ TickStep) /\ Writable) => Mirrors(storage', market')
     /\ (lastOp'.op = "init" /\ ~Running /\ market = createDefaultMarket
           /\ Writable /\ PeerRunning /\ Mirrors(storage, peer.market)) =>
          /\ lastOp'.loaded
          /\ ~lastOp'.seeded
          /\ storage' = storage
          /\ market' = peer.market]_vars

C13_Witness ==
  /\ lastOp.op = "init"
  /\ lastOp.loaded
  /\ ~lastOp.seeded
  /\ PeerRunning
  /\ market = peer.market
  /\ Len(market["corn"].history) = 2
  /\ Len(market["ingot"].history) = 2

(* C20: with two processes on one storage key, the stored payload is at    *)
(* every moment the complete state of one of the two processes, a write    *)
(* by a process leaves it holding that process's whole state, a step that  *)
(* does not write leaves it as it is, and a process's in-memory state is   *)
(* changed by no step of the other process and, once it is running, by     *)
(* nothing but its own ticks.                                              *)
C20_StoredIsOneProcess ==
  storage.kind = "object" =>
    Mirrors(storage, market) \/ Mirrors(storage, peer.market)

C20_Steps ==
  /\ EngineStep => peer' = peer
  /\ ((SeedStep \/ TickStep) /\ Writable) =>
       WellFormedPayload(storage') /\ Mirrors(storage', market')
  /\ ~((SeedStep \/ TickStep) /\ Writable) => storage' = storage
  /\ (EngineStep /\ Running /\ ~TickStep) => market' = market
  /\ lastOp'.op = "switch" => market' = peer.market /\ peer'.market = market

C20_LastWriterWins ==
  []C20_StoredIsOneProcess /\ [][C20_Steps]_vars

C20_Witness ==
  /\ Running /\ PeerRunning
  /\ lastOp.op = "switch"
  /\ ticks >= 2
  /\ market # peer.market
  /\ Mirrors(storage, peer.market)
  /\ Len(market["corn"].history) >= 2

(* C14: a tick updates corn, then the derived commodities, then saves,     *)
(* then calls the hook once if one is defined: what the hook reads is the  *)
(* post-tick prices and histories and, when storage is writable, a stored  *)
(* payload holding the post-tick state.  The hook is called once by every  *)
(* tick and once by every ensureMarketInitialized call, and by no other    *)
(* step.                                                                   *)
C14_HookAfterSave ==
  [][/\ (TickStep \/ CallStep) => lastOp'.hookCalls = (IF HookDefined THEN 1 ELSE 0)
     /\ ~(TickStep \/ CallStep) => lastOp'.hookCalls = 0
     /\ TickStep =>
          /\ \A k \in CommoditySet :
               /\ Len(market'[k].history) >= 1
               /\ market'[k].history[Len(market'[k].history)] = market'[k].price
          /\ InBand("corn", market'["corn"].price)
          /\ Writable => Mirrors(storage', market')
     /\ (TickStep /\ HookDefined) =>
          \A k \in CommoditySet :
            /\ lastOp'.view.price[k] = market'[k].price
            /\ lastOp'.view.len[k] = Len(market'[k].history)
            /\ Writable => lastOp'.view.stored[k] = market'[k].price]_vars

C14_Witness ==
  /\ lastOp.op = "tick"
  /\ lastOp.hookCalls = 1
  /\ Writable
  /\ ticks = 2
  /\ lastOp.view.stored["flour"] = market["flour"].price
  /\ lastOp.view.len["flour"] = 2

(* The entries of s that are finite numbers, in order *)
FiniteEntries(s) == SelectSeq(s, FiniteValue)

(* C15: a successful load gives every commodity that the payload holds     *)
(* with a finite numeric price the last 60 of the finite numeric entries   *)
(* of its source array, in order, and an empty history when the source is  *)
(* not an array.                                                           *)
C15_LoadKeepsLast60Finite ==
  [][(lastOp'.op = "load" /\ lastOp'.loaded /\ storage.kind = "object") =>
       \A k \in CommoditySet :
         (storage.obj[k].present /\ FiniteValue(storage.obj[k].price)) =>
            market'[k].history =
              (IF storage.obj[k].isArr
                 THEN Suffix(FiniteEntries(storage.obj[k].history), 60)
                 ELSE <<>>)]_vars

(* C16: loadMarketState changes only the commodities that the payload    *)
(* holds with a numeric price: a commodity the payload lacks or holds      *)
(* without one keeps its price and history, an unknown payload key adds no *)
(* entry, and the in-memory key set is the five commodities before and     *)
(* after the load, whether the memory is a default, seeded or ticked one.  *)
FiveKeys(m) == DOMAIN m = {"corn", "flour", "oil", "biofuel", "ingot"}

C16_LoadFrame ==
  /\ [](FiveKeys(market))
  /\ [][lastOp'.op = "load" =>
          /\ FiveKeys(market')
          /\ \A k \in CommoditySet :
               (\/ storageMode # "ok"
                \/ storage.kind # "object"
                \/ ~storage.obj[k].present
                \/ storage.obj[k].price = NonNumeric)
                 => market'[k] = market[k]]_vars

C16_Witness ==
  /\ lastOp.op = "load"
  /\ lastOp.loaded
  /\ storage.obj["gold"].present
  /\ ~storage.obj["flour"].present
  /\ market["corn"].price = 255
  /\ market["flour"].price = 900
  /\ Len(market["flour"].history) = 60

(* The parameter table of the derived commodities: corn units and the      *)
(* multiplier range, in thousandths                                        *)
CornUnits(k) ==
  IF k = "flour" THEN 4 ELSE IF k = "oil" THEN 10 ELSE IF k = "biofuel" THEN 25 ELSE 50

MultLo(k) ==
  IF k = "flour" THEN 1600 ELSE IF k = "oil" THEN 2000 ELSE IF k = "biofuel" THEN 2500 ELSE 3000

MultHi(k) ==
  IF k = "flour" THEN 2400 ELSE IF k = "oil" THEN 3000 ELSE IF k = "biofuel" THEN 3500 ELSE 4500

NearestCent(x) == 10 * ((x + 5) \div 10)

Between(x, lo, hi) == IF x < lo THEN lo ELSE IF x > hi THEN hi ELSE x

(* The least and the greatest price of derived commodity k at corn price p *)
DerivedLow(k, p) ==
  NearestCent(Between((p * CornUnits(k) * MultLo(k)) \div 1000, BandMin(k), BandMax(k)))

DerivedHigh(k, p) ==
  NearestCent(Between((p * CornUnits(k) * MultHi(k)) \div 1000, BandMin(k), BandMax(k)))

DerivedFrom(k, p, v) ==
  /\ WholeCents(v)
  /\ v >= DerivedLow(k, p)
  /\ v <= DerivedHigh(k, p)

DerivedSet == {"flour", "oil", "biofuel", "ingot"}

(* The market with the four derived commodities emptied *)
WithoutDerived(m) ==
  [k \in DOMAIN m |-> IF k = "corn" THEN m[k] ELSE [price |-> 0, history |-> <<>>]]

(* C17: after a tick each derived price is the rounded, clamped product of *)
(* the corn price that this tick produced, the corn units and a multiplier *)
(* of the commodity's range; and the derived prices of a tick are the same *)
(* whatever the derived prices were before it.                             *)
C17_DerivedFromNewCorn ==
  /\ [](\A rs \in RandomStreams, k \in DerivedSet :
          updateDerivedFromCorn(market, rs)[k].price =
            updateDerivedFromCorn(WithoutDerived(market), rs)[k].price)
  /\ [][TickStep =>
          \A k \in DerivedSet :
            DerivedFrom(k, market'["corn"].price, market'[k].price)]_vars

C17_Witness ==
  /\ lastOp.op = "tick"
  /\ Len(market["corn"].history) = 2
  /\ market["corn"].history[1] < market["corn"].price
  /\ market["flour"].price = DerivedLow("flour", market["corn"].price)
  /\ market["flour"].price > DerivedLow("flour", market["corn"].history[1])

(* The least and the greatest change of the corn price at a local hour *)
DeltaLo(hour) ==
  IF hour >= 6 /\ hour <= 11 THEN -10 ELSE IF hour >= 12 /\ hour <= 17 THEN -10 ELSE -40

DeltaHi(hour) ==
  IF hour >= 6 /\ hour <= 11 THEN 30 ELSE IF hour >= 12 /\ hour <= 17 THEN 10 ELSE 40

PreTickCorn(v) == IF FiniteValue(v) THEN v ELSE 250

(* C18: one corn step at a local hour takes the price c (0.25 when it is   *)
(* not a finite number) to round-to-cents(clamp(c + d, 0.05, 0.90)) for a  *)
(* d of the hour's band: -0.01..+0.03 at 6..11, -0.01..+0.01 at 12..17,    *)
(* -0.04..+0.04 at any other hour.                                         *)
C18_CornDeltaByHour ==
  [][\A hour \in 0 .. 23 :
       (\E r \in CornDraws : CornStepAt(hour, r)) =>
          LET c == PreTickCorn(market["corn"].price)
              new == market'["corn"].price
          IN /\ WholeCents(new)
             /\ new >= NearestCent(Between(c + DeltaLo(hour), 50, 900))
             /\ new <= NearestCent(Between(c + DeltaHi(hour), 50, 900))
             /\ (c = 250 /\ hour = 14) => (new >= 240 /\ new <= 260)]_vars

C18_Witness ==
  /\ lastOp.op = "corn"
  /\ ticks = 2
  /\ market["corn"].history = <<280, 290>>

(* C19: the first ensureMarketInitialized whose load fails on the default  *)
(* state returns with corn a whole number of cents in 0.18..0.32, every    *)
(* history the one-element sequence of its price, every derived price in   *)
(* its band and computed from that corn price, the payload equal to the    *)
(* state when storage is writable, the hook called once when one is        *)
(* defined, and the timer started.                                         *)
C19_SeedOnFailedLoad ==
  [][(lastOp'.op = "init" /\ ~lastOp'.loaded /\ market = createDefaultMarket) =>
       /\ WholeCents(market'["corn"].price)
       /\ market'["corn"].price >= 180
       /\ market'["corn"].price <= 320
       /\ \A k \in CommoditySet : market'[k].history = <<market'[k].price>>
       /\ \A k \in DerivedSet :
            /\ InBand(k, market'[k].price)
            /\ DerivedFrom(k, market'["corn"].price, market'[k].price)
       /\ Writable => Mirrors(storage', market')
       /\ HookDefined => lastOp'.hookCalls = 1
       /\ timers' # {}
       /\ Running']_vars

C19_Witness ==
  /\ lastOp.op = "init"
  /\ ~lastOp.loaded
  /\ lastOp.hookCalls = 1
  /\ Writable
  /\ storage.kind = "object"
  /\ storage.obj["ingot"].history = <<market["ingot"].price>>
  /\ market["corn"].price = 320

(* A price series: every history non-empty and ending in the commodity's   *)
(* price, the five histories of one length                                 *)
SeriesConsistent(m) ==
  /\ \A k \in CommoditySet :
       /\ Len(m[k].history) >= 1
       /\ m[k].history[Len(m[k].history)] = m[k].price
  /\ \A k \in CommoditySet : Len(m[k].history) = Len(m["corn"].history)

(* C21: when the storage is written by this engine only, starting empty,   *)
(* then after any sequence of seeds, ticks and restarts with successful    *)
(* saves every initialised process holds, for each commodity, a non-empty  *)
(* history whose last entry is the price, and five histories of the same   *)
(* length.                                                                 *)
C21_SeriesConsistent ==
  /\ Running => SeriesConsistent(market)
  /\ PeerRunning => SeriesConsistent(peer.market)

C21_Witness ==
  /\ lastOp.op = "tick"
  /\ ticks = 2
  /\ PeerRunning
  /\ Len(market["ingot"].history) = 60
  /\ Len(peer.market["ingot"].history) = 60
  /\ market["corn"].history[59] # market["corn"].price
  /\ Mirrors(storage, market)

====
